---- MODULE Spec2Model ----
(***************************************************************************)
(* TB6612FNG dual H-bridge bring-up scripts.                               *)
(*                                                                         *)
(* Two variants of the same control surface are modelled:                  *)
(*   "rpi"    - scripts/motor_test.py        (RPi.GPIO, free functions)    *)
(*   "pigpio" - scripts/motor_test_pigpio.py (pigpio, MotorController)     *)
(*                                                                         *)
(* Every function of the scripts is a sequence of GPIO library calls.  A   *)
(* function body is an operator that yields this sequence; the variable    *)
(* todo holds the calls of the running function that are still to be made, *)
(* so every state between two pin writes is a state of the model.  Each    *)
(* call is tagged with the exception handler that encloses it (h) and, in  *)
(* the teardown, with the teardown sub-step it belongs to (s).             *)
(***************************************************************************)
EXTENDS Integers, Sequences, FiniteSets

\* ---------------------------------------------------------------- bounds
MaxFaults == 1      \* library calls that may raise in one run
MaxInterrupts == 1  \* keyboard interrupts that may arrive in one run
MaxCleanups == 2    \* direct calls of cleanup() by a caller of the functions
MaxOver == 1        \* how far outside [0,100] a requested speed may lie

\* ------------------------------------------------------- pin assignment
AIN1 == 24
AIN2 == 23
PWMA == 12
BIN1 == 22
BIN2 == 27
PWMB == 13
STBY == 16
PWM_FREQUENCY == 1000

DigitalPins == {AIN1, AIN2, BIN1, BIN2, STBY}
Channels == {PWMA, PWMB}
Pins == DigitalPins \cup Channels

\* speeds a direct caller passes; 30 and 40 are the speeds of the demo
Speeds == ((0 - MaxOver) .. 0) \cup {30, 40} \cup (100 .. (100 + MaxOver))
InteractiveSpeed == 50

VARIABLES
  variant,    \* "rpi" | "pigpio": which script runs
  entry,      \* "auto" | "interactive" | "direct" (functions called directly)
  daemon,     \* pigpio: whether pigpiod accepts the connection
  pc,         \* position of the caller: start, init, idle, cmd, final, exit
  cur,        \* the function call in progress, or the last one made
  todo,       \* library calls the running function still has to make
  exc,        \* exception propagating out of the call / to the caller
  pend,       \* exception held while the finally clause runs
  init,       \* "no" | "begun" | "ok" | "failed": outcome of initialize
  ip,         \* index of the next step of the automated demo
  mode,       \* pin -> "unset" | "out"
  level,      \* digital pin -> "U" (never driven) | "LOW" | "HIGH"
  pwm,        \* channel -> "none" | "created" | "running" | "stopped"
  duty,       \* channel -> duty cycle last written to the channel
  gpiomode,   \* RPi.GPIO: numbering mode set (GPIO.setmode)
  pi,         \* pigpio handle: "none" | "open" | "dead" | "stopped"
  connected,  \* MotorController.connected
  faults,     \* library calls that raised so far
  intrs,      \* keyboard interrupts so far
  cleanups,   \* calls of cleanup so far
  planned,    \* teardown sub-steps the running cleanup contains
  attempted,  \* teardown sub-steps the running cleanup has attempted
  snap        \* hardware and controller state when the running cleanup was called

hw == <<mode, level, pwm, duty, gpiomode, pi, connected>>
vars == <<variant, entry, daemon, pc, cur, todo, exc, pend, init, ip,
          mode, level, pwm, duty, gpiomode, pi, connected,
          faults, intrs, cleanups, planned, attempted, snap>>

\* ------------------------------------------------------------- helpers
Max(a, b) == IF a >= b THEN a ELSE b
Min(a, b) == IF a <= b THEN a ELSE b

\* one library call: kind, pin, level written, duty written, handler, sub-step
Op(k, p, lv, dc, h, s) == [k |-> k, p |-> p, lv |-> lv, dc |-> dc, h |-> h, s |-> s]

\* speed = max(0, min(100, speed))
ClampUnbounded(speed) == speed
Clamp(speed) == Max(0, Min(100, speed))

\* pigpio: duty_cycle = int(speed * 255 / 100)
DutyCycle(speed) == (speed * 255) \div 100


\* ============================================== scripts/motor_test.py
\* Function bodies as sequences of RPi.GPIO calls.  h is the handler the
\* call runs under: "prop" (none: the exception leaves the function),
\* "setup" (except Exception of setup_gpio), "swallow" (except Exception of
\* cleanup), "ignore" (a bare try/except: pass).

\* A body with a seeded defect (wrong order, missing call, wrong pin)
\* precedes the body it is a variant of; the properties below are shown to
\* depend on the bodies by failing on these variants.
motor_a_forward(speed, h, s) ==
  LET sp == IF speed < 0 \/ speed > 100 THEN Clamp(speed) ELSE speed
  IN << Op("output", AIN1, "HIGH", 0, h, s),
        Op("output", AIN2, "LOW", 0, h, s),
        Op("ChangeDutyCycle", PWMA, "", sp, h, s) >>

motor_a_backward_high_first(speed, h, s) ==
  LET sp == IF speed < 0 \/ speed > 100 THEN Clamp(speed) ELSE speed
  IN << Op("output", AIN2, "HIGH", 0, h, s),
        Op("output", AIN1, "LOW", 0, h, s),
        Op("ChangeDutyCycle", PWMA, "", sp, h, s) >>

motor_a_backward(speed, h, s) ==
  LET sp == IF speed < 0 \/ speed > 100 THEN Clamp(speed) ELSE speed
  IN << Op("output", AIN1, "LOW", 0, h, s),
        Op("output", AIN2, "HIGH", 0, h, s),
        Op("ChangeDutyCycle", PWMA, "", sp, h, s) >>

motor_a_stop_keeps_duty(h, s) ==
  << Op("output", AIN1, "LOW", 0, h, s),
     Op("output", AIN2, "LOW", 0, h, s) >>

motor_a_stop(h, s) ==
  << Op("output", AIN1, "LOW", 0, h, s),
     Op("output", AIN2, "LOW", 0, h, s),
     Op("ChangeDutyCycle", PWMA, "", 0, h, s) >>

motor_b_forward(speed, h, s) ==
  LET sp == IF speed < 0 \/ speed > 100 THEN Clamp(speed) ELSE speed
  IN << Op("output", BIN1, "HIGH", 0, h, s),
        Op("output", BIN2, "LOW", 0, h, s),
        Op("ChangeDutyCycle", PWMB, "", sp, h, s) >>

motor_b_backward(speed, h, s) ==
  LET sp == IF speed < 0 \/ speed > 100 THEN Clamp(speed) ELSE speed
  IN << Op("output", BIN1, "LOW", 0, h, s),
        Op("output", BIN2, "HIGH", 0, h, s),
        Op("ChangeDutyCycle", PWMB, "", sp, h, s) >>

motor_b_stop(h, s) ==
  << Op("output", BIN1, "LOW", 0, h, s),
     Op("output", BIN2, "LOW", 0, h, s),
     Op("ChangeDutyCycle", PWMB, "", 0, h, s) >>

\* pwm_a / pwm_b are the caller's handles (None unless setup_gpio returned)
stop_all_motors(pwm_a, pwm_b, h) ==
  (IF pwm_a THEN motor_a_stop(h, "stopA") ELSE << >>) \o
  (IF pwm_b THEN motor_b_stop(h, "stopB") ELSE << >>)

\* the except Exception clause of setup_gpio: stop the channels created so
\* far (each in a bare try/except), then re-raise
setup_gpio_except ==
  (IF pwm[PWMA] # "none" THEN << Op("pwm_stop", PWMA, "", 0, "ignore", "") >> ELSE << >>) \o
  (IF pwm[PWMB] # "none" THEN << Op("pwm_stop", PWMB, "", 0, "ignore", "") >> ELSE << >>) \o
  << Op("raise", 0, "", 0, "prop", "") >>

\* the except clause around GPIO.PWM(PWMB, 1000): if pwm_a: pwm_a.stop(); raise
setup_gpio_pwmb_except ==
  (IF pwm[PWMA] # "none" THEN << Op("pwm_stop", PWMA, "", 0, "setup", "") >> ELSE << >>) \o
  << Op("raise", 0, "", 0, "setup", "") >>

setup_gpio_standby_first ==
  << Op("setmode", 0, "", 0, "setup", ""),
     Op("setup", AIN1, "", 0, "setup", ""),
     Op("setup", AIN2, "", 0, "setup", ""),
     Op("setup", PWMA, "", 0, "setup", ""),
     Op("setup", BIN1, "", 0, "setup", ""),
     Op("setup", BIN2, "", 0, "setup", ""),
     Op("setup", PWMB, "", 0, "setup", ""),
     Op("setup", STBY, "", 0, "setup", ""),
     Op("output", STBY, "HIGH", 0, "setup", ""),
     Op("PWM", PWMA, "", 0, "setup", ""),
     Op("PWM", PWMB, "", 0, "pwmb", ""),
     Op("start", PWMA, "", 0, "setup", ""),
     Op("start", PWMB, "", 0, "setup", "") >>

setup_gpio ==
  << Op("setmode", 0, "", 0, "setup", ""),
     Op("setup", AIN1, "", 0, "setup", ""),
     Op("setup", AIN2, "", 0, "setup", ""),
     Op("setup", PWMA, "", 0, "setup", ""),
     Op("setup", BIN1, "", 0, "setup", ""),
     Op("setup", BIN2, "", 0, "setup", ""),
     Op("setup", PWMB, "", 0, "setup", ""),
     Op("setup", STBY, "", 0, "setup", ""),
     Op("PWM", PWMA, "", 0, "setup", ""),
     Op("PWM", PWMB, "", 0, "pwmb", ""),
     Op("start", PWMA, "", 0, "setup", ""),
     Op("start", PWMB, "", 0, "setup", ""),
     Op("output", STBY, "HIGH", 0, "setup", "") >>

cleanup_skips_standby(pwm_a, pwm_b) ==
  (IF pwm_a /\ pwm_b THEN stop_all_motors(pwm_a, pwm_b, "swallow") ELSE << >>) \o
  (IF pwm_a THEN << Op("pwm_stop", PWMA, "", 0, "swallow", "pwm") >> ELSE << >>) \o
  (IF pwm_b THEN << Op("pwm_stop", PWMB, "", 0, "swallow", "pwm") >> ELSE << >>) \o
  << Op("gpio_cleanup", 0, "", 0, "swallow", "release") >>

cleanup(pwm_a, pwm_b) ==
  (IF pwm_a /\ pwm_b THEN stop_all_motors(pwm_a, pwm_b, "swallow") ELSE << >>) \o
  (IF pwm_a THEN << Op("pwm_stop", PWMA, "", 0, "swallow", "pwm") >> ELSE << >>) \o
  (IF pwm_b THEN << Op("pwm_stop", PWMB, "", 0, "swallow", "pwm") >> ELSE << >>) \o
  << Op("output", STBY, "LOW", 0, "ignore", "standby"),
     Op("gpio_cleanup", 0, "", 0, "swallow", "release") >>

\* ======================================= scripts/motor_test_pigpio.py
\* Methods of MotorController as sequences of pigpio calls.  "false" is the
\* except Exception clause of connect (return False).

MC_setup_pins_standby_high(h) ==
  << Op("set_mode", AIN1, "", 0, h, ""), Op("write", AIN1, "LOW", 0, h, ""),
     Op("set_mode", AIN2, "", 0, h, ""), Op("write", AIN2, "LOW", 0, h, ""),
     Op("set_mode", BIN1, "", 0, h, ""), Op("write", BIN1, "LOW", 0, h, ""),
     Op("set_mode", BIN2, "", 0, h, ""), Op("write", BIN2, "LOW", 0, h, ""),
     Op("set_mode", STBY, "", 0, h, ""), Op("write", STBY, "HIGH", 0, h, ""),
     Op("set_mode", PWMA, "", 0, h, ""),
     Op("set_mode", PWMB, "", 0, h, ""),
     Op("set_PWM_frequency", PWMA, "", PWM_FREQUENCY, h, ""),
     Op("set_PWM_frequency", PWMB, "", PWM_FREQUENCY, h, ""),
     Op("set_PWM_dutycycle", PWMA, "", 0, h, ""),
     Op("set_PWM_dutycycle", PWMB, "", 0, h, ""),
     Op("write", STBY, "HIGH", 0, h, "") >>

MC_setup_pins(h) ==
  << Op("set_mode", AIN1, "", 0, h, ""), Op("write", AIN1, "LOW", 0, h, ""),
     Op("set_mode", AIN2, "", 0, h, ""), Op("write", AIN2, "LOW", 0, h, ""),
     Op("set_mode", BIN1, "", 0, h, ""), Op("write", BIN1, "LOW", 0, h, ""),
     Op("set_mode", BIN2, "", 0, h, ""), Op("write", BIN2, "LOW", 0, h, ""),
     Op("set_mode", STBY, "", 0, h, ""), Op("write", STBY, "LOW", 0, h, ""),
     Op("set_mode", PWMA, "", 0, h, ""),
     Op("set_mode", PWMB, "", 0, h, ""),
     Op("set_PWM_frequency", PWMA, "", PWM_FREQUENCY, h, ""),
     Op("set_PWM_frequency", PWMB, "", PWM_FREQUENCY, h, ""),
     Op("set_PWM_dutycycle", PWMA, "", 0, h, ""),
     Op("set_PWM_dutycycle", PWMB, "", 0, h, ""),
     Op("write", STBY, "HIGH", 0, h, "") >>

\* self.pi = pigpio.pi(); if not self.pi.connected: return False (decided
\* when the "pi" call is made); self.connected = True; self.setup_pins()
MC_connect ==
  << Op("pi", 0, "", 0, "false", ""),
     Op("connected_true", 0, "", 0, "false", "") >> \o
  MC_setup_pins("false")

MC_motor_a_forward_unguarded(speed, h, s) ==
  << Op("write", AIN1, "HIGH", 0, h, s),
     Op("write", AIN2, "LOW", 0, h, s),
     Op("set_PWM_dutycycle", PWMA, "", DutyCycle(Clamp(speed)), h, s) >>

MC_motor_a_forward(speed, h, s) ==
  IF ~connected THEN << >> ELSE
  << Op("write", AIN1, "HIGH", 0, h, s),
     Op("write", AIN2, "LOW", 0, h, s),
     Op("set_PWM_dutycycle", PWMA, "", DutyCycle(Clamp(speed)), h, s) >>

MC_motor_a_backward(speed, h, s) ==
  IF ~connected THEN << >> ELSE
  << Op("write", AIN1, "LOW", 0, h, s),
     Op("write", AIN2, "HIGH", 0, h, s),
     Op("set_PWM_dutycycle", PWMA, "", DutyCycle(Clamp(speed)), h, s) >>

MC_motor_a_stop(h, s) ==
  IF ~connected THEN << >> ELSE
  << Op("write", AIN1, "LOW", 0, h, s),
     Op("write", AIN2, "LOW", 0, h, s),
     Op("set_PWM_dutycycle", PWMA, "", 0, h, s) >>

MC_motor_b_forward(speed, h, s) ==
  IF ~connected THEN << >> ELSE
  << Op("write", BIN1, "HIGH", 0, h, s),
     Op("write", BIN2, "LOW", 0, h, s),
     Op("set_PWM_dutycycle", PWMB, "", DutyCycle(Clamp(speed)), h, s) >>

MC_motor_b_backward_wrong_pins(speed, h, s) ==
  IF ~connected THEN << >> ELSE
  << Op("write", AIN1, "LOW", 0, h, s),
     Op("write", BIN2, "HIGH", 0, h, s),
     Op("set_PWM_dutycycle", PWMB, "", DutyCycle(Clamp(speed)), h, s) >>

MC_motor_b_backward(speed, h, s) ==
  IF ~connected THEN << >> ELSE
  << Op("write", BIN1, "LOW", 0, h, s),
     Op("write", BIN2, "HIGH", 0, h, s),
     Op("set_PWM_dutycycle", PWMB, "", DutyCycle(Clamp(speed)), h, s) >>

MC_motor_b_stop(h, s) ==
  IF ~connected THEN << >> ELSE
  << Op("write", BIN1, "LOW", 0, h, s),
     Op("write", BIN2, "LOW", 0, h, s),
     Op("set_PWM_dutycycle", PWMB, "", 0, h, s) >>

MC_stop_all(h) == MC_motor_a_stop(h, "stopA") \o MC_motor_b_stop(h, "stopB")

MC_cleanup_stays_connected ==
  IF connected /\ pi # "none"
  THEN MC_stop_all("prop") \o
       << Op("write", STBY, "LOW", 0, "prop", "standby"),
          Op("pi_stop", 0, "", 0, "prop", "release") >>
  ELSE << >>

MC_cleanup ==
  IF connected /\ pi # "none"
  THEN MC_stop_all("prop") \o
       << Op("write", STBY, "LOW", 0, "prop", "standby"),
          Op("pi_stop", 0, "", 0, "prop", "release"),
          Op("connected_false", 0, "", 0, "prop", "") >>
  ELSE << >>


\* ===================================================== the GPIO libraries
\* Effect of one library call that succeeds.  RPi.GPIO: setmode, setup,
\* PWM, start, ChangeDutyCycle, pwm_stop (PWM.stop), output, gpio_cleanup
\* (GPIO.cleanup releases every pin; the output latch keeps its value).
\* pigpio: pi, set_mode, write, set_PWM_frequency, set_PWM_dutycycle,
\* pi_stop (pi.stop).  connected_true / connected_false assign
\* self.connected.
Apply(op) ==
  /\ mode' = CASE op.k \in {"setup", "set_mode"} -> [mode EXCEPT ![op.p] = "out"]
               [] op.k = "gpio_cleanup" -> [p \in Pins |-> "unset"]
               [] OTHER -> mode
  /\ level' = IF op.k \in {"output", "write"}
              THEN [level EXCEPT ![op.p] = op.lv] ELSE level
  /\ pwm' = CASE op.k = "PWM" -> [pwm EXCEPT ![op.p] = "created"]
              [] op.k \in {"start", "set_PWM_dutycycle"} -> [pwm EXCEPT ![op.p] = "running"]
              [] op.k = "pwm_stop" -> [pwm EXCEPT ![op.p] = "stopped"]
              [] OTHER -> pwm
  /\ duty' = IF op.k \in {"start", "ChangeDutyCycle", "set_PWM_dutycycle"}
             THEN [duty EXCEPT ![op.p] = op.dc] ELSE duty
  /\ gpiomode' = CASE op.k = "setmode" -> TRUE
                   [] op.k = "gpio_cleanup" -> FALSE
                   [] OTHER -> gpiomode
  /\ pi' = CASE op.k = "pi" -> (IF daemon THEN "open" ELSE "dead")
             [] op.k = "pi_stop" -> "stopped"
             [] OTHER -> pi
  /\ connected' = CASE op.k = "connected_true" -> TRUE
                    [] op.k = "connected_false" -> FALSE
                    [] OTHER -> connected

\* calls the library itself rejects in the current state: RPi.GPIO raises
\* RuntimeError for a pin that is not set up (or when no numbering mode is
\* set), pigpio raises on a handle that is not open; a raise statement
LibThrows(op) ==
  \/ op.k = "raise"
  \/ op.k = "setup" /\ ~gpiomode
  \/ op.k \in {"output", "PWM"} /\ mode[op.p] # "out"
  \/ op.k \in {"set_mode", "write", "set_PWM_frequency", "set_PWM_dutycycle"} /\ pi # "open"

\* calls that go to the hardware and so may fail
LibraryCalls == {"setmode", "setup", "PWM", "start", "ChangeDutyCycle", "pwm_stop",
                 "output", "gpio_cleanup", "pi", "set_mode", "write",
                 "set_PWM_frequency", "set_PWM_dutycycle", "pi_stop"}

\* Where control goes when the call at the head of todo raises `kind`.
\* A bare except: (h = "ignore") catches everything; except Exception
\* clauses do not catch KeyboardInterrupt.
Raise(kind) ==
  LET op == Head(todo) IN
  /\ attempted' = IF op.s # "" THEN attempted \cup {op.s} ELSE attempted
  /\ IF op.h = "ignore"
     THEN /\ todo' = Tail(todo)
          /\ exc' = exc
          /\ cur' = [cur EXCEPT !.failed = TRUE]
     ELSE IF kind = "KeyboardInterrupt" \/ op.h = "prop"
     THEN /\ todo' = << >>
          /\ exc' = kind
          /\ cur' = [cur EXCEPT !.failed = TRUE]
     ELSE IF op.h = "setup"
     THEN /\ todo' = setup_gpio_except
          /\ exc' = exc
          /\ cur' = [cur EXCEPT !.failed = TRUE]
     ELSE IF op.h = "pwmb"
     THEN /\ todo' = setup_gpio_pwmb_except
          /\ exc' = exc
          /\ cur' = [cur EXCEPT !.failed = TRUE]
     ELSE IF op.h = "swallow"
     THEN /\ todo' = << >>
          /\ exc' = "none"
          /\ cur' = [cur EXCEPT !.failed = TRUE]
     ELSE \* op.h = "false": connect prints the error and returns False
          /\ todo' = << >>
          /\ exc' = "none"
          /\ cur' = [cur EXCEPT !.failed = TRUE, !.ret = FALSE]

\* ================================================================ callers
\* run_motor_test / run_automated_test: the demo, the same in both scripts
Script ==
  << <<"motor_a_forward", 30>>, <<"motor_a_stop", 0>>,
     <<"motor_a_backward", 30>>, <<"motor_a_stop", 0>>,
     <<"motor_b_forward", 30>>, <<"motor_b_stop", 0>>,
     <<"motor_b_backward", 30>>, <<"motor_b_stop", 0>>,
     <<"motor_a_forward", 40>>, <<"motor_b_forward", 40>>,
     <<"motor_a_backward", 40>>, <<"motor_b_backward", 40>>,
     <<"motor_a_backward", 40>>, <<"motor_b_forward", 40>>,
     <<"motor_a_forward", 40>>, <<"motor_b_backward", 40>>,
     <<"stop_all", 0>> >>

MoveCommands == {"motor_a_forward", "motor_a_backward", "motor_b_forward", "motor_b_backward"}
StopCommands == {"motor_a_stop", "motor_b_stop", "stop_all"}
Commands == MoveCommands \cup StopCommands

\* the library calls of command fn, called from the top level
Body(fn, speed) ==
  IF variant = "rpi"
  THEN CASE fn = "motor_a_forward" -> motor_a_forward(speed, "prop", "")
         [] fn = "motor_a_backward" -> motor_a_backward(speed, "prop", "")
         [] fn = "motor_a_stop" -> motor_a_stop("prop", "")
         [] fn = "motor_b_forward" -> motor_b_forward(speed, "prop", "")
         [] fn = "motor_b_backward" -> motor_b_backward(speed, "prop", "")
         [] fn = "motor_b_stop" -> motor_b_stop("prop", "")
         [] fn = "stop_all" -> stop_all_motors(TRUE, TRUE, "prop")
  ELSE CASE fn = "motor_a_forward" -> MC_motor_a_forward(speed, "prop", "")
         [] fn = "motor_a_backward" -> MC_motor_a_backward(speed, "prop", "")
         [] fn = "motor_a_stop" -> MC_motor_a_stop("prop", "")
         [] fn = "motor_b_forward" -> MC_motor_b_forward(speed, "prop", "")
         [] fn = "motor_b_backward" -> MC_motor_b_backward(speed, "prop", "")
         [] fn = "motor_b_stop" -> MC_motor_b_stop("prop", "")
         [] fn = "stop_all" -> MC_stop_all("prop")

\* cleanup(pwm_a, pwm_b) / controller.cleanup(): the caller's handles are
\* set exactly when setup_gpio returned
CleanupBody ==
  IF variant = "rpi" THEN cleanup(init = "ok", init = "ok") ELSE MC_cleanup

InitBody == IF variant = "rpi" THEN setup_gpio ELSE MC_connect

\* snap outside cleanup
NoSnap ==
  <<[p \in Pins |-> "unset"], [p \in DigitalPins |-> "U"],
    [c \in Channels |-> "none"], [c \in Channels |-> 0], FALSE, "none", FALSE>>

\* what the caller keeps of a call that is over: its name and outcome
Over(c) == [c EXCEPT !.speed = 0, !.prev = "none", !.prevFailed = FALSE]

NewCall(fn, speed) ==
  [fn |-> fn, speed |-> speed, failed |-> FALSE, ret |-> TRUE,
   prev |-> cur.fn, prevFailed |-> (cur.failed \/ exc # "none")]

\* a call of cleanup; `held` is the exception the finally clause holds
CallCleanup(held) ==
  /\ pc' = "final"
  /\ cur' = NewCall("cleanup", 0)
  /\ todo' = CleanupBody
  /\ exc' = "none"
  /\ pend' = held
  /\ cleanups' = cleanups + 1
  /\ planned' = {CleanupBody[i].s : i \in 1..Len(CleanupBody)} \ {""}
  /\ attempted' = {}
  /\ snap' = hw

Init ==
  /\ variant \in {"rpi", "pigpio"}
  /\ entry \in {"auto", "interactive", "direct"}
  /\ daemon \in (IF variant = "pigpio" THEN BOOLEAN ELSE {TRUE})
  /\ pc = IF entry = "direct" THEN "idle" ELSE "start"
  /\ cur = [fn |-> "none", speed |-> 0, failed |-> FALSE, ret |-> TRUE,
            prev |-> "none", prevFailed |-> FALSE]
  /\ todo = << >>
  /\ exc = "none"
  /\ pend = "none"
  /\ init = "no"
  /\ ip = 1
  /\ mode = [p \in Pins |-> "unset"]
  /\ level = [p \in DigitalPins |-> "U"]
  /\ pwm = [c \in Channels |-> "none"]
  /\ duty = [c \in Channels |-> 0]
  /\ gpiomode = FALSE
  /\ pi = "none"
  /\ connected = FALSE
  /\ faults = 0
  /\ intrs = 0
  /\ cleanups = 0
  /\ planned = {}
  /\ attempted = {}
  /\ snap = NoSnap

\* setup_gpio() / controller.connect() is called
Initialize ==
  /\ init = "no"
  /\ pc \in {"start", "idle"}
  /\ pc' = "init"
  /\ init' = "begun"
  /\ cur' = NewCall("initialize", 0)
  /\ todo' = InitBody
  /\ exc' = "none"
  /\ snap' = NoSnap
  /\ UNCHANGED <<variant, entry, daemon, pend, ip, hw,
                 faults, intrs, cleanups, planned, attempted>>

CallCommand(fn, speed) ==
  /\ pc = "idle"
  /\ pc' = "cmd"
  /\ cur' = NewCall(fn, speed)
  /\ todo' = Body(fn, speed)
  /\ exc' = "none"
  /\ snap' = NoSnap
  /\ UNCHANGED <<variant, entry, daemon, pend, init, ip, hw,
                 faults, intrs, cleanups, planned, attempted>>

\* a caller of the functions themselves: any command with any speed; the
\* RPi.GPIO functions need the PWM handles setup_gpio returns
DirectCommand ==
  /\ entry = "direct"
  /\ variant = "rpi" => init = "ok"
  /\ \/ \E fn \in MoveCommands : \E speed \in Speeds : CallCommand(fn, speed)
     \/ \E fn \in StopCommands : CallCommand(fn, 0)

DirectCleanup ==
  /\ entry = "direct"
  /\ pc = "idle"
  /\ cleanups < MaxCleanups
  /\ CallCleanup("none")
  /\ UNCHANGED <<variant, entry, daemon, init, ip, hw, faults, intrs>>

\* the next step of the demo
ScriptCommand ==
  /\ entry = "auto"
  /\ ip <= Len(Script)
  /\ CallCommand(Script[ip][1], Script[ip][2])

\* the demo is over: the finally clause runs
ScriptEnd ==
  /\ entry = "auto"
  /\ pc = "idle"
  /\ ip > Len(Script)
  /\ CallCleanup("none")
  /\ UNCHANGED <<variant, entry, daemon, init, ip, hw, faults, intrs>>

\* af, ab, as, bf, bb, bs, stop
InteractiveCommand ==
  /\ entry = "interactive"
  /\ \E fn \in Commands :
       CallCommand(fn, IF fn \in MoveCommands THEN InteractiveSpeed ELSE 0)

\* q: break, then the finally clause
Quit ==
  /\ entry = "interactive"
  /\ pc = "idle"
  /\ CallCleanup("none")
  /\ UNCHANGED <<variant, entry, daemon, init, ip, hw, faults, intrs>>

\* KeyboardInterrupt during time.sleep() or input(): except KeyboardInterrupt,
\* then the finally clause
IdleInterrupt ==
  /\ entry # "direct"
  /\ pc = "idle"
  /\ intrs < MaxInterrupts
  /\ intrs' = intrs + 1
  /\ CallCleanup("none")
  /\ UNCHANGED <<variant, entry, daemon, init, ip, hw, faults>>

\* the next library call of the running function succeeds
Exec ==
  /\ todo # << >>
  /\ ~LibThrows(Head(todo))
  /\ Apply(Head(todo))
  /\ LET op == Head(todo) IN
     /\ attempted' = IF op.s # "" THEN attempted \cup {op.s} ELSE attempted
     /\ IF op.k = "pi" /\ ~daemon
        THEN /\ todo' = << >>
             /\ cur' = [cur EXCEPT !.failed = TRUE, !.ret = FALSE]
        ELSE /\ todo' = Tail(todo)
             /\ cur' = cur
  /\ UNCHANGED <<variant, entry, daemon, pc, exc, pend, init, ip,
                 faults, intrs, cleanups, planned, snap>>

\* the library rejects the call
LibError ==
  /\ todo # << >>
  /\ LibThrows(Head(todo))
  /\ Raise("Exception")
  /\ UNCHANGED <<variant, entry, daemon, pc, pend, init, ip, hw,
                 faults, intrs, cleanups, planned, snap>>

\* the call fails in the hardware layer (explored through the entry
\* points, the callers the scripts have)
Fault ==
  /\ entry # "direct"
  /\ todo # << >>
  /\ ~LibThrows(Head(todo))
  /\ Head(todo).k \in LibraryCalls
  /\ faults < MaxFaults
  /\ faults' = faults + 1
  /\ Raise("Exception")
  /\ UNCHANGED <<variant, entry, daemon, pc, pend, init, ip, hw,
                 intrs, cleanups, planned, snap>>

\* KeyboardInterrupt arrives while a function runs
Interrupt ==
  /\ entry # "direct"
  /\ todo # << >>
  /\ intrs < MaxInterrupts
  /\ intrs' = intrs + 1
  /\ Raise("KeyboardInterrupt")
  /\ UNCHANGED <<variant, entry, daemon, pc, pend, init, ip, hw,
                 faults, cleanups, planned, snap>>

\* the running function is over: back in the caller
Return ==
  /\ todo = << >>
  /\ pc \in {"init", "cmd", "final"}
  /\ LET ok == exc = "none" /\ cur.ret IN
     IF entry = "direct"
     THEN \* the caller sees the result (exc) and goes on
          /\ pc' = "idle"
          /\ init' = IF pc = "init" THEN (IF ok THEN "ok" ELSE "failed") ELSE init
          /\ cur' = Over(cur)
          /\ UNCHANGED <<todo, exc, pend, ip, cleanups, planned, attempted, snap>>
     ELSE IF pc = "final"
     THEN \* the finally clause is over: the entry point returns, or the
          \* exception that was held, or the one cleanup raised, goes on
          /\ pc' = "exit"
          /\ exc' = IF exc # "none" THEN exc ELSE pend
          /\ pend' = "none"
          /\ cur' = Over(cur)
          /\ UNCHANGED <<todo, init, ip, cleanups, planned, attempted, snap>>
     ELSE IF ok
     THEN /\ pc' = "idle"
          /\ init' = IF pc = "init" THEN "ok" ELSE init
          /\ ip' = IF pc = "cmd" /\ entry = "auto" THEN ip + 1 ELSE ip
          /\ cur' = Over(cur)
          /\ UNCHANGED <<todo, exc, pend, cleanups, planned, attempted, snap>>
     ELSE IF variant = "pigpio" /\ pc = "init"
     THEN \* connect() is called outside the try: "Failed to initialize
          \* motor controller"; return, or the interrupt leaves the function
          /\ pc' = "exit"
          /\ init' = "failed"
          /\ cur' = Over(cur)
          /\ UNCHANGED <<todo, exc, pend, ip, cleanups, planned, attempted, snap>>
     ELSE \* inside the try: the except clauses, then finally.
          \* run_interactive_mode of the pigpio script has no except Exception
          /\ init' = IF pc = "init" THEN "failed" ELSE init
          /\ CallCleanup(IF variant = "pigpio" /\ entry = "interactive" /\ exc = "Exception"
                         THEN exc ELSE "none")
          /\ UNCHANGED ip
  /\ UNCHANGED <<variant, entry, daemon, hw, faults, intrs>>

Next ==
  \/ Initialize
  \/ DirectCommand
  \/ DirectCleanup
  \/ ScriptCommand
  \/ ScriptEnd
  \/ InteractiveCommand
  \/ Quit
  \/ IdleInterrupt
  \/ Exec
  \/ LibError
  \/ Fault
  \/ Interrupt
  \/ Return

Spec == Init /\ [][Next]_vars


\* ================================================================= claims
In1(fn) == IF fn \in {"motor_a_forward", "motor_a_backward", "motor_a_stop"} THEN AIN1 ELSE BIN1
In2(fn) == IF fn \in {"motor_a_forward", "motor_a_backward", "motor_a_stop"} THEN AIN2 ELSE BIN2
PwmOf(fn) == IF fn \in {"motor_a_forward", "motor_a_backward", "motor_a_stop"} THEN PWMA ELSE PWMB

\* the speed the contract asks for, and the pigpio duty (0..255) that
\* stands for a percentage: the largest d with d/255 <= percent/100
Clamped(s) == IF s < 0 THEN 0 ELSE IF s > 100 THEN 100 ELSE s
Scaled(percent) == CHOOSE d \in 0..255 : d * 100 <= percent * 255 /\ (d + 1) * 100 > percent * 255

\* a forward/backward call on an initialized driver has made its last
\* library call, and neither the hardware nor the user interfered
MoveDone ==
  /\ pc = "cmd" /\ todo = << >> /\ cur.fn \in MoveCommands
  /\ init = "ok" /\ cleanups = 0 /\ faults = 0 /\ intrs = 0

\* C1 as stated: after forward(speed) or backward(speed) the value applied
\* to the motor's PWM channel equals max(0, min(100, speed)), and the call
\* did not fail.
C1_AppliesClampedSpeed ==
  MoveDone => exc = "none" /\ duty[PwmOf(cur.fn)] = Clamped(cur.speed)

\* C1 amended: the call does not fail and the value applied is the clamped
\* speed itself in the RPi.GPIO script, and int(clamped * 255 / 100) on
\* pigpio's 0..255 duty range in the pigpio script; it never exceeds full
\* scale, so a raw out-of-range speed is never applied.
C1_AppliesClampedDuty ==
  MoveDone =>
    /\ exc = "none"
    /\ variant = "rpi" => duty[PwmOf(cur.fn)] = Clamped(cur.speed)
    /\ variant = "pigpio" => duty[PwmOf(cur.fn)] = Scaled(Clamped(cur.speed))

C1_Witness ==
  /\ MoveDone /\ variant = "pigpio" /\ cur.fn = "motor_a_backward"
  /\ cur.speed > 100 /\ duty[PWMA] = 255

\* C2: once stop() on a motor of an initialized driver has returned, the
\* motor's duty cycle is 0 and both of its direction pins are low.
C2_StopLeavesMotorOff ==
  (/\ cur.fn \in StopCommands /\ todo = << >> /\ exc = "none"
   /\ init = "ok" /\ cleanups = 0)
  => /\ cur.fn \in {"motor_a_stop", "stop_all"} =>
          level[AIN1] = "LOW" /\ level[AIN2] = "LOW" /\ duty[PWMA] = 0
     /\ cur.fn \in {"motor_b_stop", "stop_all"} =>
          level[BIN1] = "LOW" /\ level[BIN2] = "LOW" /\ duty[PWMB] = 0

C2_Witness ==
  /\ cur.fn = "motor_a_stop" /\ cur.prev = "motor_a_forward" /\ pc = "cmd"
  /\ todo = << >> /\ exc = "none" /\ init = "ok" /\ cleanups = 0
  /\ level[AIN1] = "LOW" /\ duty[PWMA] = 0

\* C3: while backward() runs right after a forward() on the same motor, in
\* no state (before, between or after its pin writes) are both direction
\* pins of the motor high.
C3_NoBothHighForwardBackward ==
  (/\ pc = "cmd" /\ ~cur.prevFailed
   /\ \/ cur.fn = "motor_a_backward" /\ cur.prev = "motor_a_forward"
      \/ cur.fn = "motor_b_backward" /\ cur.prev = "motor_b_forward")
  => ~(level[In1(cur.fn)] = "HIGH" /\ level[In2(cur.fn)] = "HIGH")

C3_Witness ==
  /\ pc = "cmd" /\ cur.fn = "motor_a_backward" /\ cur.prev = "motor_a_forward"
  /\ ~cur.prevFailed /\ Len(todo) = 2
  /\ level[AIN1] = "LOW" /\ level[AIN2] = "LOW"

\* C4: while and after initialize() runs, standby is high only when every
\* role pin is an output and both PWM channels run at duty 0; and in no
\* state at all is standby high while a PWM channel has no defined duty.
C4_StandbyAfterPwm ==
  level[STBY] = "HIGH" =>
    /\ \A c \in Channels : pwm[c] \in {"running", "stopped"}
    /\ cur.fn = "initialize" =>
         /\ \A p \in Pins : mode[p] = "out"
         /\ \A c \in Channels : pwm[c] = "running" /\ duty[c] = 0

C4_Witness ==
  cur.fn = "initialize" /\ pc = "init" /\ todo = << >> /\ level[STBY] = "HIGH"

\* C5: when a step of initialize() fails, standby is not driven high by
\* the call, and the call does not return success (it raises, or connect()
\* returns False).
C5_FailedInitLeavesStandbyLow ==
  (cur.fn = "initialize" /\ cur.failed) =>
    /\ level[STBY] # "HIGH"
    /\ todo = << >> => (exc # "none" \/ ~cur.ret)

C5_Witness ==
  /\ cur.fn = "initialize" /\ cur.failed /\ pc = "init" /\ todo = << >>
  /\ faults = 1 /\ mode[STBY] = "out" /\ pwm[PWMA] # "none"

\* C6 as stated: when shutdown() is over, every teardown sub-step it
\* contains has been attempted, whichever of them failed.
C6_EverySubstepAttempted ==
  (cur.fn = "cleanup" /\ todo = << >> /\ intrs = 0) => planned \subseteq attempted

\* C7 as stated: no entry point exits with GPIO state acquired (a pin
\* configured, the daemon handle open) unless shutdown() has been run.
C7_ShutdownBeforeExit ==
  (/\ pc = "exit"
   /\ (pi = "open" \/ \E p \in Pins : mode[p] = "out"))
  => cleanups > 0

\* C8: after a successful initialize(), any commands, and a shutdown() in
\* which no call fails, standby is low and both motors are stopped.
C8_ShutdownStopsAll ==
  (/\ cur.fn = "cleanup" /\ todo = << >> /\ exc = "none" /\ ~cur.failed
   /\ init = "ok" /\ cleanups = 1)
  => /\ level[STBY] = "LOW"
     /\ \A p \in {AIN1, AIN2, BIN1, BIN2} : level[p] = "LOW"
     /\ \A c \in Channels : duty[c] = 0

C8_Witness ==
  /\ cur.fn = "cleanup" /\ pc = "final" /\ todo = << >> /\ exc = "none" /\ ~cur.failed
  /\ init = "ok" /\ cleanups = 1 /\ cur.prev = "motor_b_backward"
  /\ level[STBY] = "LOW" /\ level[BIN2] = "LOW"

\* C9: a shutdown() called right after a shutdown() raises nothing and
\* leaves pins, duty cycles, PWM channels and the released/connected status
\* as the first call left them.
C9_SecondShutdownSame ==
  (cur.fn = "cleanup" /\ cur.prev = "cleanup" /\ pc = "final" /\ todo = << >>)
  => exc = "none" /\ hw = snap

C9_Witness ==
  /\ cur.fn = "cleanup" /\ cur.prev = "cleanup" /\ pc = "final" /\ todo = << >>
  /\ init = "ok" /\ cleanups = 2 /\ level[STBY] = "LOW"

\* C10: no step of a command on motor A changes B's direction pins, B's
\* duty cycle or standby, and no step of a command on B changes A's or
\* standby.
C10_OtherMotorUnchanged ==
  [][ /\ (pc = "cmd" /\ cur.fn \in {"motor_a_forward", "motor_a_backward", "motor_a_stop"})
         => /\ level'[BIN1] = level[BIN1] /\ level'[BIN2] = level[BIN2]
            /\ duty'[PWMB] = duty[PWMB] /\ pwm'[PWMB] = pwm[PWMB]
            /\ level'[STBY] = level[STBY]
      /\ (pc = "cmd" /\ cur.fn \in {"motor_b_forward", "motor_b_backward", "motor_b_stop"})
         => /\ level'[AIN1] = level[AIN1] /\ level'[AIN2] = level[AIN2]
            /\ duty'[PWMA] = duty[PWMA] /\ pwm'[PWMA] = pwm[PWMA]
            /\ level'[STBY] = level[STBY] ]_vars

C10_Witness ==
  /\ pc = "cmd" /\ todo = << >> /\ cur.fn = "motor_b_backward" /\ cur.speed = 40
  /\ cur.prev = "motor_a_stop" /\ variant = "pigpio" /\ connected
  /\ level[AIN1] = "LOW" /\ level[AIN2] = "LOW" /\ duty[PWMA] = 0
  /\ level[BIN1] = "LOW" /\ level[BIN2] = "HIGH" /\ duty[PWMB] = 102
  /\ level[STBY] = "HIGH"


\* C11 as stated: once initialize() has returned successfully and no
\* command has been issued yet, both direction pins of each motor have been
\* driven low, both duty cycles are 0 and standby is high.
C11_StoppedAfterInit ==
  (cur.fn = "initialize" /\ init = "ok")
  => /\ \A p \in {AIN1, AIN2, BIN1, BIN2} : level[p] = "LOW"
     /\ \A c \in Channels : pwm[c] = "running" /\ duty[c] = 0
     /\ level[STBY] = "HIGH"


\* C12 as stated: in no state, between pin writes or after a call, has a
\* motor both direction pins high (no library call failing and no
\* interrupt arriving).
C12_NeverBothHigh ==
  (faults = 0 /\ intrs = 0)
  => /\ ~(level[AIN1] = "HIGH" /\ level[AIN2] = "HIGH")
     /\ ~(level[BIN1] = "HIGH" /\ level[BIN2] = "HIGH")


\* C13 as stated: whenever MotorController.connect() has returned False,
\* connected is False, and the entry point does not exit with the daemon
\* handle still open.
C13_ConnectedOnlyAfterSetup ==
  (variant = "pigpio" /\ cur.fn = "initialize" /\ todo = << >>
   /\ exc = "none" /\ ~cur.ret)
  => /\ ~connected
     /\ pc = "exit" => pi # "open"


\* C14: a forward, backward, stop or stop_all command of the pigpio
\* controller issued while connected is False makes no library call at
\* all (it returns at once, raising nothing), and no step of it changes
\* standby, a direction pin, a duty cycle or a pin mode.
C14_NoWriteWhenNotConnected ==
  [][ (variant = "pigpio" /\ pc = "cmd" /\ ~connected)
      => /\ todo = << >> /\ exc = "none"
         /\ level' = level /\ duty' = duty /\ pwm' = pwm /\ mode' = mode
         /\ connected' = connected ]_vars

C14_Witness ==
  /\ variant = "pigpio" /\ pc = "cmd" /\ ~connected /\ cur.fn = "motor_a_forward"
  /\ cur.speed = 100 /\ cur.prev = "cleanup" /\ init = "ok" /\ cleanups = 1
  /\ pi = "stopped" /\ level[STBY] = "LOW" /\ level[AIN1] = "LOW" /\ duty[PWMA] = 0

====
